---- MODULE Spec2Model ----
(***************************************************************************)
(* A model of SmartFolder (src/smart_folder.py): two folder objects, the   *)
(* "source" one (self) and the "target" one, their sqlite tables, the two  *)
(* directory trees on disk, and sync_to() run row by row.                  *)
(*                                                                         *)
(* A tree is a function from the (dir, name) pairs of its regular files to *)
(* their stat data [size, mtime].  A table is the set of its rows.  The    *)
(* rows of a query come in an order SQL leaves open, so a cursor is the    *)
(* set of rows not yet fetched and the loop takes any of them next.  An    *)
(* exception raised by a file operation is not caught anywhere in the      *)
(* class, so it ends sync_to() with outcome "raised".                      *)
(***************************************************************************)
EXTENDS Integers, FiniteSets, Sequences, Bags, TLC

VARIABLES
    fs,         \* the two trees on disk: fs[root] maps (dir, name) to [size, mtime]
    db,         \* the two tables: db[root] is the set of rows of the folder's table
    debug,      \* self.debug of each folder object
    pc,         \* the position inside sync_to, "idle" outside of it
    sync_mode,  \* the sync_mode argument of the current or last call
    cursor,     \* the rows the open cursor has not yielded yet
    plan,       \* the operations printed so far by the current or last call
    outcome,    \* how the last call ended: "returned", "raised", "build_failed"
    dry,        \* self.debug of the source object when the call was made
    start,      \* the two trees as they were when the call was made
    prev,       \* the call before the current one
    passes      \* number of calls made

vars == <<fs, db, debug, pc, sync_mode, cursor, plan, outcome, dry, start, prev, passes>>

-----------------------------------------------------------------------------
(* Bounds of the model *)

MaxFiles == 2

MaxPasses == 2

Roots == {"source", "target"}

Paths == {<<".", "a.txt">>, <<".", "x.txt">>, <<"a", "x.txt">>, <<"b", "x.txt">>}

Keys == {[size |-> 5, mtime |-> 100], [size |-> 10, mtime |-> 100]}

Trees == UNION {[S -> Keys] : S \in {T \in SUBSET Paths : Cardinality(T) <= MaxFiles}}

-----------------------------------------------------------------------------
(* Program constants *)

MODE_SMART_MIRROR == 0

MODE_MOVE == 1

Modes == {MODE_SMART_MIRROR, MODE_MOVE}

-----------------------------------------------------------------------------
(* Paths on disk: os.path.join(location, path, name) *)

Join(location, path, name) == [root |-> location, dir |-> path, name |-> name]

\* os.path.join(location, path): the directory itself, no file name
JoinDir(location, path) == [root |-> location, dir |-> path, name |-> ""]

NoLoc == [root |-> "", dir |-> "", name |-> ""]

IsFile(f, loc) == loc.root \in Roots /\ <<loc.dir, loc.name>> \in DOMAIN f[loc.root]

Stat(f, loc) == f[loc.root][<<loc.dir, loc.name>>]

WriteFile(f, loc, st) ==
    [f EXCEPT ![loc.root] =
        [p \in (DOMAIN f[loc.root]) \cup {<<loc.dir, loc.name>>} |->
            IF p = <<loc.dir, loc.name>> THEN st ELSE f[loc.root][p]]]

Unlink(f, loc) ==
    [f EXCEPT ![loc.root] =
        [p \in (DOMAIN f[loc.root]) \ {<<loc.dir, loc.name>>} |-> f[loc.root][p]]]

\* shutil.move(src, dst): a missing src raises; an existing dst file is replaced
ShutilMove(f, from, to) ==
    IF IsFile(f, from)
    THEN [ok |-> TRUE, fs |-> WriteFile(Unlink(f, from), to, Stat(f, from))]
    ELSE [ok |-> FALSE, fs |-> f]

\* shutil.copy2(src, dst): keeps size and mtime; a missing src raises
ShutilCopy2(f, from, to) ==
    IF IsFile(f, from)
    THEN [ok |-> TRUE, fs |-> WriteFile(f, to, Stat(f, from))]
    ELSE [ok |-> FALSE, fs |-> f]

\* os.remove(path): raises on a missing path and on a directory
OsRemove(f, loc) ==
    IF IsFile(f, loc)
    THEN [ok |-> TRUE, fs |-> Unlink(f, loc)]
    ELSE [ok |-> FALSE, fs |-> f]

-----------------------------------------------------------------------------
(* The tables and the queries *)

\* The entries a walk can meet besides the regular files of Paths.  The kind of
\* an entry goes with its name: l.txt is a symbolic link to a regular file (its
\* stat data are those of the file it points to), e is a directory, and .h.txt
\* and .d are the names that begin with a dot.
DotNames == {".h.txt"}

DotDirs == {".d"}

LinkNames == {"l.txt"}

DirNames == {"e"}

ScanPaths ==
    {<<".", "a.txt">>, <<"a/b", "x.txt">>, <<".", ".h.txt">>, <<".d", "x.txt">>,
     <<".", "l.txt">>, <<".", "e">>}

ScanTrees == UNION {[S -> Keys] : S \in {T \in SUBSET ScanPaths : Cardinality(T) <= MaxFiles}}

\* glob.iglob(location/**/*, recursive=True): '*' and '**' match no name that
\* begins with a dot, so neither such a file nor anything below such a directory
Globbed(p) == p[1] \notin DotDirs /\ p[2] \notin DotNames

\* os.path.isfile(filename): follows symbolic links, false for a directory
OsPathIsFile(p) == p[2] \notin DirNames

\* populate_db: one row (path, name, size, mtime) per path the walk yields for
\* which os.path.isfile holds
ScanTree(tree) ==
    {[path |-> p[1], name |-> p[2], size |-> tree[p].size, mtime |-> tree[p].mtime] :
        p \in {q \in DOMAIN tree : Globbed(q) /\ OsPathIsFile(q)}}

MatchKey(r) == <<r.size, r.mtime>>

KeysOf(table) == {MatchKey(r) : r \in table}

\* a variant of RenameRows that joins on src.path = tgt.path
RenameRows_SamePath(src, tgt) ==
    {[source_path |-> s.path, source_name |-> s.name,
      target_path |-> t.path, target_name |-> t.name] :
        <<s, t>> \in {st \in src \X tgt :
            /\ st[1].size = st[2].size
            /\ st[1].mtime = st[2].mtime
            /\ st[1].path = st[2].path}}

\* _get_renames: src, tgt where size and mtime are equal and src.path <> tgt.path
RenameRows(src, tgt) ==
    {[source_path |-> s.path, source_name |-> s.name,
      target_path |-> t.path, target_name |-> t.name] :
        <<s, t>> \in {st \in src \X tgt :
            /\ st[1].size = st[2].size
            /\ st[1].mtime = st[2].mtime
            /\ st[1].path # st[2].path}}

\* a variant of CopyRows without the "not in" filter: every src row
CopyRows_NoFilter(src, tgt) ==
    {[source_path |-> s.path, source_name |-> s.name] : s \in src}

\* _get_copies: src rows whose (size, mtime) is not in the target table
CopyRows(src, tgt) ==
    {[source_path |-> s.path, source_name |-> s.name] :
        s \in {r \in src : MatchKey(r) \notin KeysOf(tgt)}}

\* _get_deletes_target: tgt rows whose (size, mtime) is not in the source table
DeleteRows(src, tgt) ==
    {[target_path |-> t.path, target_name |-> t.name] :
        t \in {r \in tgt : MatchKey(r) \notin KeysOf(src)}}

\* a variant of MoveRows with "in" for "not in"
MoveRows_KeyPresent(src, tgt) ==
    {[source_path |-> s.path, source_name |-> s.name] :
        s \in {r \in src : MatchKey(r) \in KeysOf(tgt)}}

\* _get_moves, first query: src rows whose (size, mtime) is not in the target table
MoveRows(src, tgt) ==
    {[source_path |-> s.path, source_name |-> s.name] :
        s \in {r \in src : MatchKey(r) \notin KeysOf(tgt)}}

\* a variant of MoveDeleteRows without the "in" filter: every src row
MoveDeleteRows_NoFilter(src, tgt) ==
    {[source_path |-> s.path, source_name |-> s.name] : s \in src}

\* _get_moves, second query: src rows whose (size, mtime) is in the target table
MoveDeleteRows(src, tgt) ==
    {[source_path |-> s.path, source_name |-> s.name] :
        s \in {r \in src : MatchKey(r) \in KeysOf(tgt)}}

-----------------------------------------------------------------------------
(* The operation each loop body prints and, when not in debug mode, applies *)

Op(kind, from, to) == [op |-> kind, from |-> from, to |-> to]

RenameOp(row) ==
    Op("rename",
       Join("target", row.target_path, row.target_name),
       Join("target", row.source_path, row.source_name))

CopyOp(row) ==
    Op("copy",
       Join("source", row.source_path, row.source_name),
       Join("target", row.source_path, row.source_name))

\* the path is built on self.location, and without the name when the row is in '.'
DeleteOp(row) ==
    Op("delete",
       IF row.target_path = "."
       THEN JoinDir("source", row.target_path)
       ELSE Join("source", row.target_path, row.target_name),
       NoLoc)

MoveOp(row) ==
    Op("move",
       Join("source", row.source_path, row.source_name),
       Join("target", row.source_path, row.source_name))

MoveDeleteOp(row) ==
    Op("delete", Join("source", row.source_path, row.source_name), NoLoc)

Apply(f, o) ==
    CASE o.op = "rename" -> ShutilMove(f, o.from, o.to)
      [] o.op = "move"   -> ShutilMove(f, o.from, o.to)
      [] o.op = "copy"   -> ShutilCopy2(f, o.from, o.to)
      [] o.op = "delete" -> OsRemove(f, o.from)

-----------------------------------------------------------------------------
(* State *)

EmptyTree == [p \in {} |-> [size |-> 0, mtime |-> 0]]

NoPass ==
    [mode |-> MODE_SMART_MIRROR, debug |-> TRUE, outcome |-> "none",
     plan |-> EmptyBag, start |-> [r \in Roots |-> EmptyTree],
     end |-> [r \in Roots |-> EmptyTree]]

Init ==
    /\ fs \in [Roots -> Trees]
    /\ db = [r \in Roots |-> {}]
    /\ debug = [r \in Roots |-> TRUE]
    /\ pc = "idle"
    /\ sync_mode = MODE_SMART_MIRROR
    /\ cursor = {}
    /\ plan = EmptyBag
    /\ outcome = "none"
    /\ dry = TRUE
    /\ start = fs
    /\ prev = NoPass
    /\ passes = 0

\* set_debug_mode, called between synchronizations
SetDebugMode(obj, mode) ==
    /\ pc = "idle"
    /\ passes < MaxPasses
    /\ debug[obj] # mode
    /\ debug' = [debug EXCEPT ![obj] = mode]
    /\ UNCHANGED <<fs, db, pc, sync_mode, cursor, plan, outcome, dry, start, prev, passes>>

\* the call source.sync_to(target, mode)
SyncTo(mode) ==
    /\ pc = "idle"
    /\ passes < MaxPasses
    /\ pc' = "populate_source"
    /\ sync_mode' = mode
    /\ cursor' = {}
    /\ plan' = EmptyBag
    /\ outcome' = "running"
    /\ dry' = debug["source"]
    /\ start' = fs
    /\ prev' = IF passes = 0 THEN NoPass
               ELSE [mode |-> sync_mode, debug |-> dry, outcome |-> outcome,
                     plan |-> plan, start |-> start, end |-> fs]
    /\ passes' = passes + 1
    /\ UNCHANGED <<fs, db, debug>>

\* a variant of PopulateDb in which sync_to goes on after a failed build
PopulateDb_Swallowed(obj, ok, next) ==
    /\ db' = [db EXCEPT ![obj] = IF ok THEN ScanTree(fs[obj]) ELSE {}]
    /\ pc' = next
    /\ outcome' = IF ok THEN outcome ELSE "build_failed"
    /\ UNCHANGED <<fs, debug, sync_mode, cursor, plan, dry, start, prev, passes>>

\* populate_db: the table is emptied and committed, then the walk fills it;
\* a walk that fails leaves the emptied table and raises
PopulateDb(obj, ok, next) ==
    /\ db' = [db EXCEPT ![obj] = IF ok THEN ScanTree(fs[obj]) ELSE {}]
    /\ pc' = IF ok THEN next ELSE "idle"
    /\ outcome' = IF ok THEN outcome ELSE "build_failed"
    /\ UNCHANGED <<fs, debug, sync_mode, cursor, plan, dry, start, prev, passes>>

PopulateSource ==
    /\ pc = "populate_source"
    /\ \E ok \in BOOLEAN : PopulateDb("source", ok, "populate_target")

PopulateTarget ==
    /\ pc = "populate_target"
    /\ \E ok \in BOOLEAN :
        PopulateDb("target", ok,
                   IF sync_mode = MODE_SMART_MIRROR THEN "get_renames" ELSE "get_moves")

\* a variant of Execute that does not wait for its place in sync_to
Execute_AnyTime(at, next, rows) ==
    /\ cursor = {}
    /\ pc' = next
    /\ cursor' = rows
    /\ UNCHANGED <<fs, db, debug, sync_mode, plan, outcome, dry, start, prev, passes>>

\* cur.execute(qry): the rows of the query over the two tables
Execute(at, next, rows) ==
    /\ pc = at
    /\ cursor = {}
    /\ pc' = next
    /\ cursor' = rows
    /\ UNCHANGED <<fs, db, debug, sync_mode, plan, outcome, dry, start, prev, passes>>

\* a variant of Step that reads the debug flag of the target object
Step_TargetDebug(at, row, o) ==
    /\ pc = at
    /\ row \in cursor
    /\ plan' = plan (+) SetToBag({o})
    /\ IF debug["target"]
       THEN /\ fs' = fs
            /\ cursor' = cursor \ {row}
            /\ UNCHANGED <<pc, outcome>>
       ELSE LET res == Apply(fs, o) IN
            /\ fs' = res.fs
            /\ IF res.ok
               THEN /\ cursor' = cursor \ {row}
                    /\ UNCHANGED <<pc, outcome>>
               ELSE /\ cursor' = {}
                    /\ pc' = "idle"
                    /\ outcome' = "raised"
    /\ UNCHANGED <<db, debug, sync_mode, dry, start, prev, passes>>

\* one turn of a "for row in cur" loop: print the operation, apply it unless debug
Step(at, row, o) ==
    /\ pc = at
    /\ row \in cursor
    /\ plan' = plan (+) SetToBag({o})
    /\ IF debug["source"]
       THEN /\ fs' = fs
            /\ cursor' = cursor \ {row}
            /\ UNCHANGED <<pc, outcome>>
       ELSE LET res == Apply(fs, o) IN
            /\ fs' = res.fs
            /\ IF res.ok
               THEN /\ cursor' = cursor \ {row}
                    /\ UNCHANGED <<pc, outcome>>
               ELSE /\ cursor' = {}
                    /\ pc' = "idle"
                    /\ outcome' = "raised"
    /\ UNCHANGED <<db, debug, sync_mode, dry, start, prev, passes>>

GetRenames == Execute("get_renames", "renames", RenameRows(db["source"], db["target"]))

RenameRow == \E row \in cursor : Step("renames", row, RenameOp(row))

GetCopies == Execute("renames", "copies", CopyRows(db["source"], db["target"]))

CopyRow == \E row \in cursor : Step("copies", row, CopyOp(row))

GetDeletesTarget == Execute("copies", "deletes", DeleteRows(db["source"], db["target"]))

DeleteRow == \E row \in cursor : Step("deletes", row, DeleteOp(row))

GetMoves == Execute("get_moves", "moves", MoveRows(db["source"], db["target"]))

MoveRow == \E row \in cursor : Step("moves", row, MoveOp(row))

GetMoveDeletes == Execute("moves", "move_deletes", MoveDeleteRows(db["source"], db["target"]))

MoveDeleteRow == \E row \in cursor : Step("move_deletes", row, MoveDeleteOp(row))

\* sync_to returns after the last loop
Return ==
    /\ pc \in {"deletes", "move_deletes"}
    /\ cursor = {}
    /\ pc' = "idle"
    /\ outcome' = "returned"
    /\ UNCHANGED <<fs, db, debug, sync_mode, cursor, plan, dry, start, prev, passes>>

Next ==
    \/ \E obj \in Roots, mode \in BOOLEAN : SetDebugMode(obj, mode)
    \/ \E mode \in Modes : SyncTo(mode)
    \/ PopulateSource
    \/ PopulateTarget
    \/ GetRenames
    \/ RenameRow
    \/ GetCopies
    \/ CopyRow
    \/ GetDeletesTarget
    \/ DeleteRow
    \/ GetMoves
    \/ MoveRow
    \/ GetMoveDeletes
    \/ MoveDeleteRow
    \/ Return

Spec == Init /\ [][Next]_vars

-----------------------------------------------------------------------------
(* populate_db called on its own, on trees that also hold dot names, a symbolic
   link and a directory *)

InitScan ==
    /\ fs \in [Roots -> ScanTrees]
    /\ db = [r \in Roots |-> {}]
    /\ debug = [r \in Roots |-> TRUE]
    /\ pc = "idle"
    /\ sync_mode = MODE_SMART_MIRROR
    /\ cursor = {}
    /\ plan = EmptyBag
    /\ outcome = "none"
    /\ dry = TRUE
    /\ start = fs
    /\ prev = NoPass
    /\ passes = 0

\* the call obj.populate_db()
BuildInventory(obj) ==
    /\ pc = "idle"
    /\ \E ok \in BOOLEAN : PopulateDb(obj, ok, "idle")

NextScan == \E obj \in Roots : BuildInventory(obj)

SpecScan == InitScan /\ [][NextScan]_vars

-----------------------------------------------------------------------------
(* Vocabulary of the properties *)

Mirror == sync_mode = MODE_SMART_MIRROR

Move == sync_mode = MODE_MOVE

\* sync_to got past both populate_db calls and is over
Ended == pc = "idle" /\ outcome \in {"returned", "raised"}

\* sync_to got past both populate_db calls
Built == outcome \in {"running", "returned", "raised"} /\ pc \notin {"populate_source", "populate_target"}

StatKey(st) == <<st.size, st.mtime>>

TreeKeys(tree) == {StatKey(tree[p]) : p \in DOMAIN tree}

Planned(kinds) == {o \in BagToSet(plan) : o.op \in kinds}

\* the operations of the plan that put something at (dir, name) under the target root
DecisionsFor(p) == {o \in Planned({"rename", "copy"}) : o.to = Join("target", p[1], p[2])}

-----------------------------------------------------------------------------
(* C1 *)

\* C1 (as claimed): after one non-dry mirror pass, every source record has a
\* target file with an equal match key at the same relative directory and name,
\* and every file of the target tree has a match key of the source inventory.
MirrorConvergence ==
    (pc = "idle" /\ outcome = "returned" /\ Mirror /\ ~dry) =>
        /\ \A s \in db["source"] :
              /\ <<s.path, s.name>> \in DOMAIN fs["target"]
              /\ StatKey(fs["target"][<<s.path, s.name>>]) = MatchKey(s)
        /\ \A p \in DOMAIN fs["target"] :
              StatKey(fs["target"][p]) \in KeysOf(db["source"])

-----------------------------------------------------------------------------
(* C2 *)

\* C2 (as claimed): when a non-dry mirror pass is followed at once by a second
\* non-dry mirror pass, the second pass plans no operation at all.
MirrorIdempotence ==
    (/\ Mirror /\ ~dry /\ outcome \in {"running", "returned", "raised"}
     /\ prev.outcome = "returned" /\ prev.mode = MODE_SMART_MIRROR /\ ~prev.debug
     /\ prev.end = start) =>
        plan = EmptyBag

-----------------------------------------------------------------------------
(* C3 *)

\* the first half of C3: a dry pass leaves both trees as they were
DryRunLeavesTrees == dry => fs = start

\* the second half of C3: a non-dry pass over the trees of a dry pass of the same
\* mode ends with the same operations planned as the dry pass
DryRunSamePlan ==
    (/\ Ended /\ ~dry
     /\ prev.outcome = "returned" /\ prev.debug /\ prev.mode = sync_mode
     /\ prev.start = start) =>
        plan = prev.plan

\* C3 (as claimed): with dry-run on, a synchronize call in either mode leaves
\* the files of both trees as they were, and the same call with dry-run off
\* produces the same plan as the dry run did.
DryRunNoOp == DryRunLeavesTrees /\ DryRunSamePlan

-----------------------------------------------------------------------------
(* C4 *)

\* C4 (as claimed): during and after a non-dry move pass the target tree holds
\* every file it held before the pass, unchanged, and after the pass it also
\* holds every moved file.
MovePreservesTarget ==
    (Move /\ ~dry /\ Built) =>
        /\ \A p \in DOMAIN start["target"] :
              /\ p \in DOMAIN fs["target"]
              /\ fs["target"][p] = start["target"][p]
        /\ Ended => \A o \in Planned({"move"}) : IsFile(fs, o.to)

-----------------------------------------------------------------------------
(* C5 *)

-----------------------------------------------------------------------------
(* C6 *)

\* two source files and one target file, all with the same (size, mtime)
AmbiguousStart ==
    /\ Cardinality(DOMAIN start["source"]) = 2
    /\ Cardinality(DOMAIN start["target"]) = 1
    /\ Cardinality(TreeKeys(start["source"]) \cup TreeKeys(start["target"])) = 1

\* the source file at p was already at p in the target, with the same stat data
InPlace(p) == p \in DOMAIN start["target"] /\ start["target"][p] = start["source"][p]

\* C6 (as claimed): given two source files and one target file that share one
\* (size, mtime), a mirror pass does not raise, ends with exactly one rename or
\* copy decision for each source file (none needed for a file already in
\* place), uses no target file for two renames, and when it was non-dry has
\* every source file at its place in the target.
AmbiguousMatchStability ==
    (Ended /\ Mirror /\ AmbiguousStart) =>
        /\ outcome = "returned"
        /\ \A p \in DOMAIN start["source"] :
              \/ Cardinality(DecisionsFor(p)) = 1
              \/ InPlace(p) /\ DecisionsFor(p) = {}
        /\ \A o1, o2 \in Planned({"rename"}) : o1.from = o2.from => o1 = o2
        /\ ~dry => \A p \in DOMAIN start["source"] :
              p \in DOMAIN fs["target"] /\ fs["target"][p] = start["source"][p]

-----------------------------------------------------------------------------
(* C7 *)

\* the pairs the claim is about: a source row and a target row with the same
\* match key in different relative directories
MovedPairs ==
    {st \in db["source"] \X db["target"] :
        MatchKey(st[1]) = MatchKey(st[2]) /\ st[1].path # st[2].path}

RenamesDone == pc \in {"copies", "deletes"} \/ (pc = "idle" /\ outcome = "returned")

\* C7: in a mirror pass, for a source file and a target file with an equal match
\* key in different relative directories, once the rename loop is over a Rename
\* of the target file to the source-implied path is planned, and at no point of
\* the pass is a Copy of that source file or a Delete of that target file
\* planned or waiting in the cursor.
RenameOverCopy ==
    (Mirror /\ Built) =>
        \A st \in MovedPairs :
            LET s == st[1]
                t == st[2]
            IN  /\ RenamesDone =>
                      BagIn(Op("rename", Join("target", t.path, t.name),
                                         Join("target", s.path, s.name)), plan)
                /\ \A o \in Planned({"copy"}) : o.from # Join("source", s.path, s.name)
                /\ pc = "copies" =>
                      [source_path |-> s.path, source_name |-> s.name] \notin cursor
                /\ pc = "deletes" =>
                      [target_path |-> t.path, target_name |-> t.name] \notin cursor
                /\ \A o \in Planned({"delete"}) :
                      o.from \notin {Join(r, t.path, t.name) : r \in Roots}

\* the scenario of the claim, after the pass: source a/x.txt, target b/x.txt
\* with the same stat data, and the one operation planned is the Rename
RenameOverCopyWitness ==
    /\ pc = "idle" /\ outcome = "returned" /\ Mirror
    /\ DOMAIN start["source"] = {<<"a", "x.txt">>}
    /\ DOMAIN start["target"] = {<<"b", "x.txt">>}
    /\ start["source"][<<"a", "x.txt">>] = start["target"][<<"b", "x.txt">>]
    /\ plan = SetToBag({Op("rename", Join("target", "b", "x.txt"),
                                     Join("target", "a", "x.txt"))})

-----------------------------------------------------------------------------
(* C8 *)

OneFile == [p \in {<<".", "a.txt">>} |-> [size |-> 5, mtime |-> 100]]

SingleFileStart == [source |-> OneFile, target |-> EmptyTree]

\* C8: from source = {./a.txt (size 5, mtime 100)} and an empty target, a mirror
\* pass returns with exactly one operation planned, the Copy of source/a.txt to
\* target/a.txt; when that pass was non-dry the target then holds a.txt, and a
\* mirror pass run next plans nothing.
SingleFileScenario ==
    /\ (Ended /\ Mirror /\ start = SingleFileStart) =>
          /\ outcome = "returned"
          /\ plan = SetToBag({Op("copy", Join("source", ".", "a.txt"),
                                         Join("target", ".", "a.txt"))})
          /\ ~dry => fs = [source |-> OneFile, target |-> OneFile]
    /\ (/\ Mirror /\ Built
        /\ prev.outcome = "returned" /\ prev.mode = MODE_SMART_MIRROR /\ ~prev.debug
        /\ prev.start = SingleFileStart) =>
          /\ plan = EmptyBag
          /\ outcome # "raised"
          /\ fs = [source |-> OneFile, target |-> OneFile]

\* the second mirror pass of the scenario has returned
SingleFileScenarioWitness ==
    /\ pc = "idle" /\ outcome = "returned" /\ Mirror /\ passes = 2
    /\ prev.outcome = "returned" /\ prev.mode = MODE_SMART_MIRROR /\ ~prev.debug
    /\ prev.start = SingleFileStart
    /\ BagCardinality(prev.plan) = 1
    /\ plan = EmptyBag

-----------------------------------------------------------------------------
(* C9 *)

\* every operation the queries of the pass select
AllOps ==
    IF Mirror
    THEN {RenameOp(r) : r \in RenameRows(db["source"], db["target"])}
         \cup {CopyOp(r) : r \in CopyRows(db["source"], db["target"])}
         \cup {DeleteOp(r) : r \in DeleteRows(db["source"], db["target"])}
    ELSE {MoveOp(r) : r \in MoveRows(db["source"], db["target"])}
         \cup {MoveDeleteOp(r) : r \in MoveDeleteRows(db["source"], db["target"])}

\* C9 (as claimed): when an operation of a non-dry pass fails, the remaining
\* planned operations of the pass are still attempted, so the pass is over only
\* when every operation its queries select has been attempted.
ExecutionFailureContinues ==
    (Ended /\ ~dry) => \A o \in AllOps : BagIn(o, plan)

-----------------------------------------------------------------------------
(* C10 *)

\* C10: when building the source or the target inventory fails, sync_to stops
\* there: nothing is planned, no cursor is open, and both trees are as they were
\* when the call was made.
BuildFailureAborts ==
    outcome = "build_failed" =>
        /\ pc = "idle"
        /\ cursor = {}
        /\ plan = EmptyBag
        /\ fs = start

\* the target build of a non-dry pass failed, on trees for which the pass would
\* have had operations to apply
BuildFailureAbortsWitness ==
    /\ outcome = "build_failed" /\ ~dry
    /\ db["source"] # {}
    /\ db["target"] = {}
    /\ TreeKeys(fs["source"]) # TreeKeys(fs["target"])

-----------------------------------------------------------------------------
(* C11 *)

\* C11 (as claimed): dry-run is one setting of the synchronization as a whole,
\* so a call made while dry-run is on at either of the two folder objects
\* changes no file.
DryRunIsGlobal ==
    (pc # "idle" /\ \E r \in Roots : debug[r]) => fs = start

\* C11 (amended): debug is a flag of each folder object and sync_to reads the
\* one of the source object: during a call the dry-run setting is
\* debug["source"], and files differ from what they were when the call was made
\* only if that flag was false at the call.
SourceDebugGoverns ==
    /\ pc # "idle" => dry = debug["source"]
    /\ fs # start => ~dry

\* a call has changed files while the target object was still in debug mode
SourceDebugGovernsWitness ==
    /\ pc = "idle" /\ outcome = "returned"
    /\ fs # start
    /\ ~debug["source"]
    /\ debug["target"]

-----------------------------------------------------------------------------
(* C12 *)

\* C12 (as claimed): a mirror pass never changes the source tree, and every
\* Rename, Copy destination and Delete it applies is a path under the target
\* root.
MirrorLeavesSource ==
    (Mirror /\ Built) =>
        /\ fs["source"] = start["source"]
        /\ ~dry => \A o \in BagToSet(plan) :
              /\ o.op = "rename" => o.from.root = "target" /\ o.to.root = "target"
              /\ o.op = "copy" => o.to.root = "target"
              /\ o.op = "delete" => o.from.root = "target"

-----------------------------------------------------------------------------
(* C13 *)

\* the target files of the call whose match key no source file had
TargetOnly == {p \in DOMAIN start["target"] :
                  StatKey(start["target"][p]) \notin TreeKeys(start["source"])}

\* C13 (as claimed): a mirror pass that returns has planned one Delete for each
\* target record whose match key is not in the source inventory and no other
\* Delete, each naming target root / relative_dir / name of its record, and a
\* non-dry pass has removed those files.
DeleteDetection ==
    (pc = "idle" /\ outcome = "returned" /\ Mirror) =>
        /\ Planned({"delete"}) =
              {Op("delete", Join("target", p[1], p[2]), NoLoc) : p \in TargetOnly}
        /\ \A o \in Planned({"delete"}) : CopiesIn(o, plan) = 1
        /\ ~dry => \A p \in TargetOnly :
              ~(p \in DOMAIN fs["target"] /\ fs["target"][p] = start["target"][p])

-----------------------------------------------------------------------------
(* C14 *)

\* C14 (as claimed): once the rename loop of a mirror pass is over, a Rename
\* from the target file's path to the source-implied path under the target root
\* is planned for every source record and target record with equal match key
\* whose (relative_dir, name) differ, a difference in the name alone included.
RenameDetection ==
    (Mirror /\ Built /\ RenamesDone) =>
        \A s \in db["source"], t \in db["target"] :
            (MatchKey(s) = MatchKey(t) /\ <<s.path, s.name>> # <<t.path, t.name>>) =>
                BagIn(Op("rename", Join("target", t.path, t.name),
                                   Join("target", s.path, s.name)), plan)

-----------------------------------------------------------------------------
(* C15 *)

\* C15 (as claimed): within one mirror pass each target file is the from-path
\* of at most one Rename and each destination the to-path of at most one Rename.
ConsistentPairing ==
    (Mirror /\ Built) =>
        \A o1, o2 \in Planned({"rename"}) :
            (o1.from = o2.from \/ o1.to = o2.to) => o1 = o2

-----------------------------------------------------------------------------
(* C16 *)

\* C16 (as claimed): in a mirror pass that returns, no Rename has as its
\* destination the path of a target file for which the pass plans a Delete.
RenameAvoidsPendingDelete ==
    (pc = "idle" /\ outcome = "returned" /\ Mirror) =>
        \A o \in Planned({"rename"}), p \in TargetOnly :
            o.to # Join("target", p[1], p[2])

-----------------------------------------------------------------------------
(* C17 *)

\* the operations a step adds to the plan
NewlyPlanned == {o \in BagToSet(plan') : CopiesIn(o, plan') > CopiesIn(o, plan)}

\* C17: no operation is planned while the inventories are being built, and
\* every step that plans (and, non-dry, applies) an operation finds both tables
\* equal to the scan of the trees of the call; a Rename is planned only while no
\* Copy and no Delete is planned yet, a Copy only while no Delete is, a Move
\* only while no Delete is; a mirror pass plans only Renames, Copies and
\* Deletes, a move pass only Moves and Deletes.
FixedOperationOrder ==
    [][/\ pc \in {"populate_source", "populate_target"} =>
              plan = EmptyBag /\ plan' = EmptyBag
       /\ \A o \in NewlyPlanned :
              /\ db = [r \in Roots |-> ScanTree(start[r])]
              /\ o.op = "rename" => Planned({"copy", "delete", "move"}) = {}
              /\ o.op = "copy" => Planned({"delete", "move"}) = {}
              /\ o.op = "move" => Planned({"delete", "rename", "copy"}) = {}
              /\ Mirror => o.op \in {"rename", "copy", "delete"}
              /\ Move => o.op \in {"move", "delete"}]_vars

\* a non-dry mirror pass has returned after applying a Rename and then a Copy
FixedOperationOrderWitness ==
    /\ pc = "idle" /\ outcome = "returned" /\ Mirror /\ ~dry
    /\ Planned({"rename"}) # {}
    /\ Planned({"copy"}) # {}

-----------------------------------------------------------------------------
(* C18 *)

\* C18: when a move pass is over, every source file of the call has exactly one
\* operation planned, once: the Move to the same relative path under the target
\* root when its match key was not in the target at the call, the Delete of the
\* source file when it was; and nothing else is planned.
MovePartition ==
    (Ended /\ Move) =>
        /\ \A p \in DOMAIN start["source"] :
              LET here == Join("source", p[1], p[2])
                  ops == {o \in BagToSet(plan) : o.from = here}
              IN  /\ ops = {IF StatKey(start["source"][p]) \notin TreeKeys(start["target"])
                            THEN Op("move", here, Join("target", p[1], p[2]))
                            ELSE Op("delete", here, NoLoc)}
                  /\ \A o \in ops : CopiesIn(o, plan) = 1
        /\ BagCardinality(plan) = Cardinality(DOMAIN start["source"])

\* a non-dry move pass is over in which two source files with one match key,
\* absent from the target at the call, were both moved: the first move put the
\* key into the target tree and the second file was still moved, not deleted
MovePartitionWitness ==
    /\ Ended /\ Move /\ ~dry
    /\ Cardinality(DOMAIN start["source"]) = 2
    /\ Cardinality(TreeKeys(start["source"])) = 1
    /\ Cardinality(Planned({"move"})) = 2
    /\ Planned({"delete"}) = {}

-----------------------------------------------------------------------------
(* C19 *)

\* one record for every regular file of the tree, whatever its name, and none
\* for a symbolic link or a directory
RegularRecords(tree) ==
    {[path |-> p[1], name |-> p[2], size |-> tree[p].size, mtime |-> tree[p].mtime] :
        p \in {q \in DOMAIN tree : q[2] \notin LinkNames \cup DirNames}}

\* C19 (as claimed): a build of a folder's inventory that succeeds leaves in
\* the folder's table exactly one record for every regular file under the root,
\* names and directories that begin with a dot included, with its directory
\* relative to the root, and no record for a directory or a symbolic link.
InventoryComplete ==
    [][\A obj \in Roots :
          (pc = "idle" /\ PopulateDb(obj, TRUE, "idle")) =>
              db'[obj] = RegularRecords(fs[obj])]_vars

-----------------------------------------------------------------------------
(* C20 *)

PopulatePc(obj) == IF obj = "source" THEN "populate_source" ELSE "populate_target"

\* C20 (as claimed): a build of a folder's inventory that fails leaves the
\* folder's table as it was before the build started, and one that succeeds
\* leaves exactly the records of the files that exist now.
AllOrNothingCommit ==
    [][\A obj \in Roots :
          pc = PopulatePc(obj) =>
              IF outcome' = "build_failed"
              THEN db'[obj] = db[obj]
              ELSE /\ \A r \in db'[obj] : <<r.path, r.name>> \in DOMAIN fs[obj]
                   /\ \A p \in DOMAIN fs[obj] : \E r \in db'[obj] : <<r.path, r.name>> = p]_vars

====
